---- MODULE Spec2Model ----
(***************************************************************************)
(* Model of scripts/create-tabs-pdf.py: create_tabs_pdf() walks a fixed    *)
(* list of font candidates, builds the list `story` of document blocks    *)
(* from the module-level list tabs_data and hands it to doc.build.         *)
(* Strings are TLA+ strings; a document block is a record                  *)
(* [kind, text, style, rows].                                              *)
(***************************************************************************)
EXTENDS Integers, Sequences, FiniteSets, TLC

VARIABLES
    tabs_data,                \* the module-level list of tab records
    pc,                       \* position of the call in create_tabs_pdf
    fontIdx,                  \* position of `for font_path in chinese_font_paths`
    chinese_font_registered,  \* local flag, line 170
    register_failed,          \* history: some registerFont call raised in this call
    font_name,                \* local, lines 189/192
    font_name_bold,           \* local, lines 190/193
    story,                    \* the list of flowables, line 206
    timestamp,                \* local, line 266
    total_tabs,               \* line 277
    internal_tabs,            \* line 278
    regular_tabs,             \* line 279
    empty_tabs,               \* line 280
    tabIdx,                   \* position of `for tab in tabs_data`
    writes,                   \* number of doc.build calls of this call
    prev_story,               \* history: story handed to doc.build by the previous call
    prev_timestamp            \* history: timestamp of the previous call

vars == <<tabs_data, pc, fontIdx, chinese_font_registered, register_failed,
          font_name, font_name_bold, story, timestamp, total_tabs,
          internal_tabs, regular_tabs, empty_tabs, tabIdx, writes,
          prev_story, prev_timestamp>>

-----------------------------------------------------------------------------
(* Bounds and program constants *)

MaxTabs == 2            \* longest tab list explored

NumFontPaths == 6       \* len(chinese_font_paths)
MaxUrlLen == 100        \* `if len(display_url) > 100`
KeepUrlLen == 97        \* `display_url[:97]`

-----------------------------------------------------------------------------
(* Python string primitives *)

\* s.startswith(p)
StartsWith(s, p) ==
    /\ Len(s) >= Len(p)
    /\ SubSeq(s, 1, Len(p)) = p

\* p in s
Contains(s, p) ==
    \E i \in 1..(Len(s) - Len(p) + 1) : SubSeq(s, i, i + Len(p) - 1) = p

\* s[:n]
Slice(s, n) == IF Len(s) <= n THEN s ELSE SubSeq(s, 1, n)

Digit(d) == SubSeq("0123456789", d + 1, d + 1)

\* str(n) for n >= 0, as the f-string and str() format an int
RECURSIVE IntToStr(_)
IntToStr(n) == IF n < 10 THEN Digit(n) ELSE IntToStr(n \div 10) \o Digit(n % 10)

-----------------------------------------------------------------------------
(* Inputs: the tab records a list is drawn from *)

RECURSIVE Pad(_, _)
\* s extended with "a" to length n
Pad(s, n) == IF Len(s) >= n THEN s ELSE Pad(s \o "a", n)

Tab(i, t, u) == [index |-> i, title |-> t, url |-> u]

TabPool ==
    { Tab(2, "(timeout)", ""),
      Tab(13, "DevTools", "devtools://devtools/bundled/devtools_app.html [internal]"),
      Tab(11, "New Tab", "chrome://newtab/"),
      Tab(0, "notes [internal]", Pad("https://", MaxUrlLen)),
      Tab(1, "(timeout)", Pad("https://", MaxUrlLen + 1)),
      Tab(3, "x (timeout)", "https://a.b/?u=chrome://x&v=devtools://y"),
      Tab(4, "chrome://x [internal]", ""),
      Tab(107, "L105", Pad("https://", MaxUrlLen - 5) \o "[internal]") }

TabLists == UNION { [1..n -> TabPool] : n \in 0..MaxTabs }

\* values datetime.now().strftime("%Y-%m-%d %H:%M:%S") may return
Timestamps == { "2026-01-01 00:00:00", "2026-01-01 00:00:01" }

-----------------------------------------------------------------------------
(* Document blocks *)

Paragraph(text, style) ==
    [kind |-> "Paragraph", text |-> text, style |-> style, rows |-> <<>>]

Spacer(height) ==
    [kind |-> "Spacer", text |-> height, style |-> "", rows |-> <<>>]

Table(data) ==
    [kind |-> "Table", text |-> "", style |-> "", rows |-> data]

-----------------------------------------------------------------------------
(* Classification and display, as create_tabs_pdf computes them *)

\* as IsInternal, with the schemes looked for anywhere in the URL
IsInternalSchemeAnywhere(t) ==
    \/ Contains(t.url, "[internal]")
    \/ Contains(t.url, "chrome://")
    \/ Contains(t.url, "devtools://")

\* as IsInternal, with the marker also looked for in the title
IsInternalTitleToo(t) ==
    \/ Contains(t.url, "[internal]") \/ Contains(t.title, "[internal]")
    \/ StartsWith(t.url, "chrome://")
    \/ StartsWith(t.url, "devtools://")

\* the condition of the list comprehension of line 278
IsInternal(t) ==
    \/ Contains(t.url, "[internal]")
    \/ StartsWith(t.url, "chrome://")
    \/ StartsWith(t.url, "devtools://")

\* as IsEmptyOrTimeout, with the title searched for "(timeout)"
IsEmptyOrTimeoutSubstring(t) == t.url = "" \/ Contains(t.title, "(timeout)")

\* as IsEmptyOrTimeout, without the empty-URL case
IsTimeoutOnly(t) == t.title = "(timeout)"

\* the condition of the list comprehension of line 280
IsEmptyOrTimeout(t) == t.url = "" \/ t.title = "(timeout)"

InternalCount(tabs) == Len(SelectSeq(tabs, IsInternal))

EmptyCount(tabs) == Len(SelectSeq(tabs, IsEmptyOrTimeout))

RegularCount(total, internal) == total - internal

SummaryData(total, regular, internal, empty) ==
    << <<"Total Tabs", IntToStr(total)>>,
       <<"Regular Tabs", IntToStr(regular)>>,
       <<"Internal/DevTools Tabs", IntToStr(internal)>>,
       <<"Empty/Timeout Tabs", IntToStr(empty)>> >>

\* as DisplayUrl, truncating from length MaxUrlLen on
DisplayUrlOffByOne(url) ==
    IF Len(url) >= MaxUrlLen THEN Slice(url, KeepUrlLen) \o "..." ELSE url

\* lines 318-320
DisplayUrl(url) ==
    IF Len(url) > MaxUrlLen THEN Slice(url, KeepUrlLen) \o "..." ELSE url

\* line 312
TabHeader(tab) == "Tab " \o IntToStr(tab.index) \o ": " \o tab.title

UrlMarkup(display_url) ==
    "<font color='#1a73e8'><u>" \o display_url \o "</u></font>"

NoUrlMarkup == "<i>(No URL)</i>"

\* lines 316-323: the block that follows a tab's header
UrlBlock(tab) ==
    IF tab.url # ""
    THEN Paragraph(UrlMarkup(DisplayUrl(tab.url)), "TabURL")
    ELSE Paragraph(NoUrlMarkup, "TabURL")

\* the three blocks one iteration of the loop of line 310 appends
TabBlocks(tab) ==
    << Paragraph(TabHeader(tab), "TabTitle"), UrlBlock(tab), Spacer("0.1inch") >>

\* as TabsAfterRender, consuming the record just rendered
TabsAfterRenderPops(tabs) == Tail(tabs)

\* the tab list as the call leaves it (the code only reads it)
TabsAfterRender(tabs) == tabs

-----------------------------------------------------------------------------
(* State machine *)

Init ==
    /\ tabs_data \in TabLists
    /\ pc = "idle"
    /\ fontIdx = 1
    /\ chinese_font_registered = FALSE
    /\ register_failed = FALSE
    /\ font_name = ""
    /\ font_name_bold = ""
    /\ story = <<>>
    /\ timestamp = ""
    /\ total_tabs = 0
    /\ internal_tabs = 0
    /\ regular_tabs = 0
    /\ empty_tabs = 0
    /\ tabIdx = 1
    /\ writes = 0
    /\ prev_story = <<>>
    /\ prev_timestamp = ""

\* the locals of a fresh call frame
FreshFrame ==
    /\ fontIdx' = 1
    /\ chinese_font_registered' = FALSE
    /\ register_failed' = FALSE
    /\ font_name' = ""
    /\ font_name_bold' = ""
    /\ story' = <<>>
    /\ timestamp' = ""
    /\ total_tabs' = 0
    /\ internal_tabs' = 0
    /\ regular_tabs' = 0
    /\ empty_tabs' = 0
    /\ tabIdx' = 1
    /\ writes' = 0

\* create_tabs_pdf() is entered: the first call, or another call after one returned
Call ==
    /\ pc \in {"idle", "done"}
    /\ pc' = "font"
    /\ FreshFrame
    /\ prev_story' = story
    /\ prev_timestamp' = timestamp
    /\ UNCHANGED tabs_data

\* where the font loop goes after a candidate that did not register
NextCandidate ==
    IF fontIdx < NumFontPaths
    THEN pc' = "font" /\ fontIdx' = fontIdx + 1
    ELSE pc' = "select" /\ fontIdx' = fontIdx

\* line 172: os.path.exists(font_path) is false
FontMissing ==
    /\ pc = "font"
    /\ NextCandidate
    /\ UNCHANGED <<tabs_data, chinese_font_registered, register_failed, font_name,
                   font_name_bold, story, timestamp, total_tabs, internal_tabs,
                   regular_tabs, empty_tabs, tabIdx, writes, prev_story,
                   prev_timestamp>>

\* as FontRegisterFails, without the try/except: the exception leaves the call
FontRegisterFailsUncaught ==
    /\ pc = "font"
    /\ pc' = "aborted"
    /\ register_failed' = TRUE
    /\ UNCHANGED <<tabs_data, fontIdx, chinese_font_registered, font_name,
                   font_name_bold, story, timestamp, total_tabs, internal_tabs,
                   regular_tabs, empty_tabs, tabIdx, writes, prev_story,
                   prev_timestamp>>

\* lines 173-185: the file exists and registerFont raises; `continue`
FontRegisterFails ==
    /\ pc = "font"
    /\ NextCandidate
    /\ register_failed' = TRUE
    /\ UNCHANGED <<tabs_data, chinese_font_registered, font_name,
                   font_name_bold, story, timestamp, total_tabs, internal_tabs,
                   regular_tabs, empty_tabs, tabIdx, writes, prev_story,
                   prev_timestamp>>

\* lines 173-182: the file exists and registerFont returns; `break`
FontRegisterOk ==
    /\ pc = "font"
    /\ chinese_font_registered' = TRUE
    /\ pc' = "select"
    /\ UNCHANGED <<tabs_data, fontIdx, register_failed, font_name,
                   font_name_bold, story, timestamp, total_tabs, internal_tabs,
                   regular_tabs, empty_tabs, tabIdx, writes, prev_story,
                   prev_timestamp>>

\* lines 187-193
SelectFont ==
    /\ pc = "select"
    /\ IF ~chinese_font_registered
       THEN font_name' = "Helvetica" /\ font_name_bold' = "Helvetica-Bold"
       ELSE font_name' = "ChineseFont" /\ font_name_bold' = "ChineseFont"
    /\ pc' = "header"
    /\ UNCHANGED <<tabs_data, fontIdx, chinese_font_registered, register_failed,
                   story, timestamp, total_tabs, internal_tabs,
                   regular_tabs, empty_tabs, tabIdx, writes, prev_story,
                   prev_timestamp>>

\* lines 196-274: story = [], title, subtitle with the timestamp, spacer, heading
BuildHeader ==
    /\ pc = "header"
    /\ \E ts \in Timestamps :
        /\ timestamp' = ts
        /\ story' = << Paragraph("Chrome Browser Tabs Report", "CustomTitle"),
                       Paragraph("Generated on " \o ts, "CustomSubtitle"),
                       Spacer("0.3inch"),
                       Paragraph("Overview", "SectionHeading") >>
    /\ pc' = "summary"
    /\ UNCHANGED <<tabs_data, fontIdx, chinese_font_registered, register_failed,
                   font_name, font_name_bold, total_tabs, internal_tabs,
                   regular_tabs, empty_tabs, tabIdx, writes, prev_story,
                   prev_timestamp>>

\* as Summary, with regular counting the tabs neither internal nor empty
SummaryRegularExcludesEmpty ==
    /\ pc = "summary"
    /\ total_tabs' = Len(tabs_data)
    /\ internal_tabs' = InternalCount(tabs_data)
    /\ empty_tabs' = EmptyCount(tabs_data)
    /\ regular_tabs' = total_tabs' - internal_tabs' - empty_tabs'
    /\ story' = story \o
                << Table(SummaryData(total_tabs', regular_tabs', internal_tabs',
                                     empty_tabs')),
                   Spacer("0.4inch"),
                   Paragraph("Detailed Tab List", "SectionHeading") >>
    /\ pc' = "tabs"
    /\ UNCHANGED <<tabs_data, fontIdx, chinese_font_registered, register_failed,
                   font_name, font_name_bold, timestamp, tabIdx, writes,
                   prev_story, prev_timestamp>>

\* as Summary, leaving the table out when there is no tab
SummaryOmitsEmptyTable ==
    /\ pc = "summary"
    /\ total_tabs' = Len(tabs_data)
    /\ internal_tabs' = InternalCount(tabs_data)
    /\ regular_tabs' = RegularCount(total_tabs', internal_tabs')
    /\ empty_tabs' = EmptyCount(tabs_data)
    /\ story' = story \o
                (IF tabs_data = <<>>
                 THEN <<>>
                 ELSE << Table(SummaryData(total_tabs', regular_tabs',
                                           internal_tabs', empty_tabs')) >>) \o
                << Spacer("0.4inch"),
                   Paragraph("Detailed Tab List", "SectionHeading") >>
    /\ pc' = "tabs"
    /\ UNCHANGED <<tabs_data, fontIdx, chinese_font_registered, register_failed,
                   font_name, font_name_bold, timestamp, tabIdx, writes,
                   prev_story, prev_timestamp>>

\* lines 277-307: the counts, the summary table, spacer, "Detailed Tab List"
Summary ==
    /\ pc = "summary"
    /\ total_tabs' = Len(tabs_data)
    /\ internal_tabs' = InternalCount(tabs_data)
    /\ regular_tabs' = RegularCount(total_tabs', internal_tabs')
    /\ empty_tabs' = EmptyCount(tabs_data)
    /\ story' = story \o
                << Table(SummaryData(total_tabs', regular_tabs', internal_tabs',
                                     empty_tabs')),
                   Spacer("0.4inch"),
                   Paragraph("Detailed Tab List", "SectionHeading") >>
    /\ pc' = "tabs"
    /\ UNCHANGED <<tabs_data, fontIdx, chinese_font_registered, register_failed,
                   font_name, font_name_bold, timestamp, tabIdx, writes,
                   prev_story, prev_timestamp>>

\* as AddTab, passing over a record without URL
AddTabSkipsNoUrl ==
    /\ pc = "tabs"
    /\ tabIdx <= Len(tabs_data)
    /\ story' = IF tabs_data[tabIdx].url = ""
                THEN story
                ELSE story \o TabBlocks(tabs_data[tabIdx])
    /\ tabIdx' = tabIdx + 1
    /\ tabs_data' = TabsAfterRender(tabs_data)
    /\ UNCHANGED <<pc, fontIdx, chinese_font_registered, register_failed,
                   font_name, font_name_bold, timestamp, total_tabs,
                   internal_tabs, regular_tabs, empty_tabs, writes, prev_story,
                   prev_timestamp>>

\* lines 310-325: one iteration of `for tab in tabs_data`
AddTab ==
    /\ pc = "tabs"
    /\ tabIdx <= Len(tabs_data)
    /\ story' = story \o TabBlocks(tabs_data[tabIdx])
    /\ tabIdx' = tabIdx + 1
    /\ tabs_data' = TabsAfterRender(tabs_data)
    /\ UNCHANGED <<pc, fontIdx, chinese_font_registered, register_failed,
                   font_name, font_name_bold, timestamp, total_tabs,
                   internal_tabs, regular_tabs, empty_tabs, writes, prev_story,
                   prev_timestamp>>

\* lines 327-329: the loop is exhausted; doc.build(story) writes the file
Build ==
    /\ pc = "tabs"
    /\ tabIdx > Len(tabs_data)
    /\ writes' = writes + 1
    /\ pc' = "done"
    /\ UNCHANGED <<tabs_data, fontIdx, chinese_font_registered, register_failed,
                   font_name, font_name_bold, story, timestamp, total_tabs,
                   internal_tabs, regular_tabs, empty_tabs, tabIdx, prev_story,
                   prev_timestamp>>

Next ==
    \/ Call
    \/ FontMissing
    \/ FontRegisterFails
    \/ FontRegisterOk
    \/ SelectFont
    \/ BuildHeader
    \/ Summary
    \/ AddTab
    \/ Build

Spec == Init /\ [][Next]_vars

-----------------------------------------------------------------------------
(* Vocabulary of the properties, stated on the records themselves *)

\* the counts have been computed (line 280 is passed)
Counted == pc \in {"tabs", "done"}

\* u begins with p
HasPrefix(u, p) == Len(p) <= Len(u) /\ SubSeq(u, 1, Len(p)) = p

\* p occurs in u
HasSubstring(u, p) ==
    \E i \in 0..(Len(u) - Len(p)) : SubSeq(u, i + 1, i + Len(p)) = p

UrlInternal(u) ==
    HasPrefix(u, "chrome://") \/ HasPrefix(u, "devtools://") \/ HasSubstring(u, "[internal]")

\* the URLs and titles of the records a list is drawn from, by what they hold
PoolUrls == { t.url : t \in TabPool }
PoolTitles == { t.title : t \in TabPool }
InternalUrls == { u \in PoolUrls : UrlInternal(u) }
MarkedUrls == { u \in PoolUrls : HasSubstring(u, "[internal]") }
MarkedTitles == { t \in PoolTitles : HasSubstring(t, "[internal]") }

\* number of positions of the tab list whose record satisfies P
CountOf(P(_)) == Cardinality({ i \in DOMAIN tabs_data : P(tabs_data[i]) })

RecUrlInternal(t) == t.url \in InternalUrls
RecNoUrl(t) == t.url = ""
RecTimeoutTitle(t) == t.title = "(timeout)"
RecEmptyOrTimeout(t) == RecNoUrl(t) \/ RecTimeoutTitle(t)
RecNeitherEmptyNorTimeout(t) == ~RecNoUrl(t) /\ ~RecTimeoutTitle(t)
RecMarkerInUrl(t) == t.url \in MarkedUrls
RecMarkerInTitleOnly(t) == t.title \in MarkedTitles /\ t.url \notin InternalUrls
RecMarkerAnywhere(t) == t.url \in InternalUrls \/ t.title \in MarkedTitles

\* number of blocks of the fixed frame that precede the first record's blocks
FrameLen == 7

\* positions in story of the header and of the URL block of record i
HeaderPos(i) == FrameLen + 3 * (i - 1) + 1
UrlPos(i) == FrameLen + 3 * (i - 1) + 2

IsPlaceholder(b) == b.kind = "Paragraph" /\ b.text = "<i>(No URL)</i>"

Placeholders == Cardinality({ k \in DOMAIN story : IsPlaceholder(story[k]) })

Reverse(seq) == [ i \in 1..Len(seq) |-> seq[Len(seq) + 1 - i] ]

\* what a block shows: its kind and its text or rows
Shown(blocks) ==
    [ k \in 1..Len(blocks) |->
        [kind |-> blocks[k].kind, text |-> blocks[k].text, rows |-> blocks[k].rows] ]

-----------------------------------------------------------------------------
(* Properties *)

\* C1: a record is counted as internal iff its URL starts with "chrome://" or
\* "devtools://" or contains "[internal]"; the title plays no part and a record
\* with an empty URL is never counted.
C1_InternalIffUrlTest ==
    Counted =>
        /\ internal_tabs = CountOf(RecUrlInternal)
        /\ internal_tabs <= Len(tabs_data) - CountOf(RecNoUrl)

C1_Witness ==
    /\ Counted
    /\ Len(tabs_data) = 2
    /\ tabs_data[1].url = "" /\ tabs_data[1].title \in MarkedTitles
    /\ HasPrefix(tabs_data[2].url, "devtools://")
    /\ internal_tabs = 1

\* C2: a record is counted as empty-or-timeout iff its URL is empty or its title
\* is exactly "(timeout)"; a title merely containing "(timeout)" does not
\* qualify, a title "(timeout)" with a non-empty URL does.
C2_EmptyIffNoUrlOrTimeoutTitle ==
    Counted =>
        /\ empty_tabs = CountOf(RecEmptyOrTimeout)
        /\ empty_tabs >= CountOf(RecTimeoutTitle)
        /\ empty_tabs <= Len(tabs_data) - CountOf(RecNeitherEmptyNorTimeout)

C2_Witness ==
    /\ Counted
    /\ Len(tabs_data) = 2
    /\ tabs_data[1].title = "x (timeout)" /\ tabs_data[1].url # ""
    /\ tabs_data[2].title = "(timeout)" /\ tabs_data[2].url # ""
    /\ empty_tabs = 1

\* C3: total is the length of the list, internal and empty are the numbers of
\* records so classified, regular is total - internal (empty is not
\* subtracted), the table shows these numbers, and the list in reverse order
\* has the same counts.
C3_SummaryCounts ==
    Counted =>
        /\ total_tabs = Len(tabs_data)
        /\ internal_tabs = CountOf(RecUrlInternal)
        /\ empty_tabs = CountOf(RecEmptyOrTimeout)
        /\ regular_tabs = total_tabs - internal_tabs
        /\ regular_tabs = Len(tabs_data) - CountOf(RecUrlInternal)
        /\ story[5].rows = << <<"Total Tabs", IntToStr(total_tabs)>>,
                              <<"Regular Tabs", IntToStr(regular_tabs)>>,
                              <<"Internal/DevTools Tabs", IntToStr(internal_tabs)>>,
                              <<"Empty/Timeout Tabs", IntToStr(empty_tabs)>> >>
        /\ InternalCount(Reverse(tabs_data)) = internal_tabs
        /\ EmptyCount(Reverse(tabs_data)) = empty_tabs

C3_Witness ==
    /\ Counted
    /\ Len(tabs_data) = 2
    /\ tabs_data[1] # tabs_data[2]
    /\ RecEmptyOrTimeout(tabs_data[1]) /\ ~RecUrlInternal(tabs_data[1])
    /\ RecUrlInternal(tabs_data[2])
    /\ regular_tabs = 1 /\ internal_tabs = 1 /\ empty_tabs = 1

\* C4: a non-empty URL of length at most 100 is displayed unmodified; a longer
\* one as its first 97 characters followed by "...", 100 characters in all.
C4_UrlTruncation ==
    Counted =>
        \A i \in 1..(tabIdx - 1) :
            LET u == tabs_data[i].url
                shown == story[UrlPos(i)].text
                open == "<font color='#1a73e8'><u>"
                close == "</u></font>"
            IN  u # "" =>
                  /\ Len(u) <= 100 => shown = open \o u \o close
                  /\ Len(u) > 100 =>
                        /\ shown = open \o SubSeq(u, 1, 97) \o "..." \o close
                        /\ Len(shown) = Len(open) + 100 + Len(close)
                  /\ Len(shown) <= Len(open) + 100 + Len(close)

C4_Witness ==
    /\ pc = "done"
    /\ Len(tabs_data) = 2
    /\ Len(tabs_data[1].url) = 100
    /\ Len(tabs_data[2].url) = 101
    /\ story[UrlPos(1)].text = UrlMarkup(tabs_data[1].url)
    /\ story[UrlPos(2)].text # UrlMarkup(tabs_data[2].url)

\* C5: after the "Detailed Tab List" heading the story holds, for every record
\* in input order and once per record, the header "Tab {index}: {title}"
\* directly followed by one URL block, which is the "(No URL)" placeholder iff
\* the record's URL is empty.
C5_DetailSection ==
    Counted =>
        /\ story[FrameLen].text = "Detailed Tab List"
        /\ Len(story) = FrameLen + 3 * (tabIdx - 1)
        /\ pc = "done" => tabIdx = Len(tabs_data) + 1
        /\ \A i \in 1..(tabIdx - 1) :
              LET t == tabs_data[i]
                  h == story[HeaderPos(i)]
                  b == story[UrlPos(i)]
              IN  /\ h.kind = "Paragraph" /\ h.style = "TabTitle"
                  /\ h.text = "Tab " \o IntToStr(t.index) \o ": " \o t.title
                  /\ b.kind = "Paragraph" /\ b.style = "TabURL"
                  /\ IsPlaceholder(b) <=> t.url = ""
                  /\ t.url # "" =>
                        HasPrefix(b.text, "<font color='#1a73e8'><u>" \o Slice(t.url, 97))
        /\ Cardinality({ k \in DOMAIN story : story[k].style = "TabTitle" }) = tabIdx - 1
        /\ Cardinality({ k \in DOMAIN story : story[k].style = "TabURL" }) = tabIdx - 1

C5_Witness ==
    /\ pc = "done"
    /\ Len(tabs_data) = 2
    /\ RecEmptyOrTimeout(tabs_data[1]) /\ tabs_data[1].url = ""
    /\ RecUrlInternal(tabs_data[2])
    /\ story[HeaderPos(2)].text = "Tab 13: DevTools"
    /\ IsPlaceholder(story[UrlPos(1)])

\* C6: for the empty tab list all four counts are 0 and the story is the fixed
\* frame alone: title, subtitle, spacer, "Overview", the table with zero counts,
\* spacer and the "Detailed Tab List" heading, with no record block after it.
C6_EmptyInput ==
    (tabs_data = <<>> /\ Counted) =>
        /\ total_tabs = 0 /\ regular_tabs = 0 /\ internal_tabs = 0 /\ empty_tabs = 0
        /\ Len(story) = FrameLen
        /\ story[1].text = "Chrome Browser Tabs Report"
        /\ story[2].text = "Generated on " \o timestamp
        /\ story[3].kind = "Spacer"
        /\ story[4].text = "Overview"
        /\ story[5].kind = "Table"
        /\ \A r \in 1..4 : story[5].rows[r][2] = "0"
        /\ story[6].kind = "Spacer"
        /\ story[7].text = "Detailed Tab List"
        /\ \A k \in DOMAIN story :
              /\ story[k].style \notin {"TabTitle", "TabURL"}
              /\ ~IsPlaceholder(story[k])

C6_Witness ==
    /\ tabs_data = <<>>
    /\ pc = "done"
    /\ writes = 1
    /\ Len(story) = FrameLen

\* C7: a call that follows another with the same timestamp hands doc.build a
\* story showing the same blocks in the same order, and no step of a call
\* changes the tab list.
C7_Deterministic ==
    /\ [](( /\ pc = "done"
            /\ prev_story # <<>>
            /\ timestamp = prev_timestamp )
          => Shown(story) = Shown(prev_story))
    /\ [][tabs_data' = tabs_data]_vars

C7_Witness ==
    /\ pc = "done"
    /\ prev_story # <<>>
    /\ timestamp = prev_timestamp
    /\ Len(tabs_data) = 2
    /\ tabs_data[1] # tabs_data[2]
    /\ font_name = "Helvetica"

\* C8: candidates are walked in order; a missing one and one whose registration
\* raises are passed over without ending the call; the loop ends at the first
\* that registers; the CJK font is used iff one registered, the built-in one
\* otherwise; and the call goes on to write the file once, after the font step.
C8_FontFallback ==
    /\ [](/\ pc \in {"idle", "font", "select", "header", "summary", "tabs", "done"}
          /\ ENABLED Next
          /\ pc = "font" => ~chinese_font_registered
          /\ pc \in {"header", "summary", "tabs", "done"} =>
                /\ font_name = "ChineseFont" <=> chinese_font_registered
                /\ font_name_bold = "ChineseFont" <=> chinese_font_registered
                /\ ~chinese_font_registered =>
                      /\ font_name = "Helvetica"
                      /\ font_name_bold = "Helvetica-Bold"
                      /\ fontIdx = NumFontPaths
          /\ writes = (IF pc = "done" THEN 1 ELSE 0))
    /\ [][/\ (chinese_font_registered /\ chinese_font_registered') => fontIdx' = fontIdx
          /\ (pc = "font" /\ pc' = "font") => fontIdx' = fontIdx + 1
          /\ writes' > writes => (pc = "tabs" /\ font_name # "" /\ story' = story)]_vars

C8_Witness ==
    /\ pc = "done"
    /\ writes = 1
    /\ register_failed
    /\ chinese_font_registered
    /\ fontIdx = 3
    /\ font_name = "ChineseFont"

\* C9 as stated: a record is counted as internal when "[internal]" appears in
\* its URL or in its title.
C9_TitleMarkerCounted ==
    Counted =>
        /\ internal_tabs = CountOf(RecMarkerAnywhere)
        /\ regular_tabs = Len(tabs_data) - CountOf(RecMarkerAnywhere)

\* C9 amended: a record is counted as internal when "[internal]" appears in its
\* URL; a record with the marker in its title only is not counted as internal and
\* is counted as regular.
C9_UrlMarkerOnly ==
    Counted =>
        /\ internal_tabs >= CountOf(RecMarkerInUrl)
        /\ internal_tabs <= Len(tabs_data) - CountOf(RecMarkerInTitleOnly)
        /\ regular_tabs >= CountOf(RecMarkerInTitleOnly)

C9_Witness ==
    /\ Counted
    /\ Len(tabs_data) = 2
    /\ RecMarkerInTitleOnly(tabs_data[1]) /\ tabs_data[1].url # ""
    /\ RecMarkerInUrl(tabs_data[2])
    /\ internal_tabs = 1
    /\ regular_tabs = 1

\* C10: regular + internal = total, each count lies between 0 and total, and
\* the story never holds more "(No URL)" placeholders than the empty count.
C10_CountBounds ==
    Counted =>
        /\ regular_tabs + internal_tabs = total_tabs
        /\ total_tabs = Len(tabs_data)
        /\ 0 <= regular_tabs /\ regular_tabs <= total_tabs
        /\ 0 <= internal_tabs /\ internal_tabs <= total_tabs
        /\ 0 <= empty_tabs /\ empty_tabs <= total_tabs
        /\ Placeholders <= empty_tabs
        /\ pc = "done" => Placeholders = CountOf(RecNoUrl)

C10_Witness ==
    /\ pc = "done"
    /\ Len(tabs_data) = 2
    /\ tabs_data[1].title = "(timeout)" /\ tabs_data[1].url # ""
    /\ tabs_data[2].url = "" /\ tabs_data[2].title # "(timeout)"
    /\ Placeholders = 1
    /\ empty_tabs = 2

====
